---- MODULE Spec2Model ----
(***************************************************************************)
(* Model of src/index.js: the hourly ingest pipeline (feed -> classify ->  *)
(* aggregate -> rank -> enrich with cameras -> publish) and the read API.  *)
(*                                                                         *)
(* Every await of the code is a suspension point; one action of the model  *)
(* is the synchronous stretch of code that runs when the awaited network   *)
(* call settles, up to the next network call that the code issues.         *)
(***************************************************************************)
EXTENDS Integers, Sequences, FiniteSets, TLC

(***************************************************************************)
(* Bounds of the model and configuration.                                  *)
(***************************************************************************)
\* number of triggers modelled: run 1 is the boot run, the others are cron firings
MaxRuns == 2
\* number of search phrases of the list kws that the model keeps (the code has 8)
NumKws == 2
\* longest feed, in rows, of the ranking specification
MaxRows == 3
MaxThemes == 2
MaxTokens == 2
\* TOP_PLACES_PER_CATEGORY of the modelled deployment (the code's default is 8)
TOP_N == 2
\* MAX_CAMS_PER_PLACE of the modelled deployment (the code's default is 10)
MAX_CAMS == 4

Runs == 1..MaxRuns

(***************************************************************************)
(* Generic sequence helpers (Array.prototype / lodash primitives).         *)
(***************************************************************************)
\* arr.slice(0, n)
Slice(s, n) == SubSeq(s, 1, IF Len(s) < n THEN Len(s) ELSE n)

\* arr.filter(pred)
FilterSeq(s, Keep(_)) == SelectSeq(s, Keep)

\* arr.map(f)
MapSeq(s, F(_)) == [i \in 1..Len(s) |-> F(s[i])]

\* concatenation of a sequence of sequences
RECURSIVE Flatten(_)
Flatten(ss) == IF ss = <<>> THEN <<>> ELSE Head(ss) \o Flatten(Tail(ss))

\* t is a subsequence of s (the elements of t occur in s in the same order)
RECURSIVE IsSubseq(_, _)
IsSubseq(t, s) ==
  IF t = <<>> THEN TRUE
  ELSE IF s = <<>> THEN FALSE
  ELSE IF Head(t) = Head(s) THEN IsSubseq(Tail(t), Tail(s))
  ELSE IsSubseq(t, Tail(s))

(***************************************************************************)
(* Strings: String.prototype.toUpperCase / toLowerCase / includes.         *)
(***************************************************************************)
LowerChars == "abcdefghijklmnopqrstuvwxyz"
UpperChars == "ABCDEFGHIJKLMNOPQRSTUVWXYZ"

CharAt(s, i) == SubSeq(s, i, i)

UpChar(c) ==
  IF \E i \in 1..26 : CharAt(LowerChars, i) = c
  THEN CharAt(UpperChars, CHOOSE i \in 1..26 : CharAt(LowerChars, i) = c)
  ELSE c

LowChar(c) ==
  IF \E i \in 1..26 : CharAt(UpperChars, i) = c
  THEN CharAt(LowerChars, CHOOSE i \in 1..26 : CharAt(UpperChars, i) = c)
  ELSE c

RECURSIVE toUpperCase(_)
toUpperCase(s) == IF Len(s) = 0 THEN "" ELSE UpChar(CharAt(s, 1)) \o toUpperCase(SubSeq(s, 2, Len(s)))

RECURSIVE toLowerCase(_)
toLowerCase(s) == IF Len(s) = 0 THEN "" ELSE LowChar(CharAt(s, 1)) \o toLowerCase(SubSeq(s, 2, Len(s)))

\* t.includes(k)
Includes(t, k) == \E i \in 1..(Len(t) - Len(k) + 1) : SubSeq(t, i, i + Len(k) - 1) = k

(***************************************************************************)
(* Category classifier.                                                    *)
(***************************************************************************)
RULES == <<
  [cat |-> "war",           inc |-> <<"WAR", "MILITARY", "ARMS", "CONFLICT", "TERROR">>],
  [cat |-> "crime",         inc |-> <<"CRIME", "KIDNAP", "MURDER", "ARREST", "CORRUPTION">>],
  [cat |-> "politics",      inc |-> <<"ELECTION", "POLITICS", "GOVERNMENT", "PROTEST">>],
  [cat |-> "entertainment", inc |-> <<"ENTERTAINMENT", "CELEBRITY", "FILM", "MUSIC">>],
  [cat |-> "disaster",      inc |-> <<"NATURAL_DISASTER", "EARTHQUAKE", "FLOOD", "HURRICANE", "WILDFIRE">>],
  [cat |-> "sports",        inc |-> <<"SPORTS", "SOCCER", "BASKETBALL", "OLYMPICS">>],
  [cat |-> "tech",          inc |-> <<"TECH", "AI", "CYBERSECURITY">>],
  [cat |-> "economy",       inc |-> <<"ECONOMY", "MARKETS", "INFLATION", "JOBS">>] >>

\* the value null of the code
Null == "null"

RuleMatches(r, up) ==
  \E k \in 1..Len(r.inc) : \E t \in 1..Len(up) : Includes(up[t], r.inc[k])

\* a faulty variant: a later rule overrides an earlier one
mapThemesLastRule(themes) ==
  LET up == MapSeq(themes, toUpperCase)
      hits == {i \in 1..Len(RULES) : RuleMatches(RULES[i], up)}
  IN  IF hits = {} THEN Null
      ELSE RULES[CHOOSE i \in hits : \A j \in hits : i >= j].cat

mapThemesToCategory(themes) ==
  LET up == MapSeq(themes, toUpperCase)
      hits == {i \in 1..Len(RULES) : RuleMatches(RULES[i], up)}
  IN  IF hits = {} THEN Null
      ELSE RULES[CHOOSE i \in hits : \A j \in hits : i <= j].cat

(***************************************************************************)
(* Feed parsing (fetchGKGLastHour): String.prototype.split / trim,         *)
(* parseFloat.  Numbers are integers in units of 1/10000 degree; NaN and   *)
(* Infinity are two values outside the range of every decimal of the feed. *)
(***************************************************************************)
NaN == 99999999
Infinity == 90000000

Digits == "0123456789"
IsDigit(c) == \E i \in 1..10 : CharAt(Digits, i) = c
DigitVal(c) == (CHOOSE i \in 1..10 : CharAt(Digits, i) = c) - 1
IsSpace(c) == c \in {" ", "\t", "\n"}

\* s.split(ch) for a separator of one character: always at least one piece
RECURSIVE Split(_, _)
Split(s, ch) ==
  IF \A i \in 1..Len(s) : CharAt(s, i) # ch THEN <<s>>
  ELSE LET i == CHOOSE i \in 1..Len(s) :
                  CharAt(s, i) = ch /\ \A j \in 1..(i - 1) : CharAt(s, j) # ch
       IN  <<SubSeq(s, 1, i - 1)>> \o Split(SubSeq(s, i + 1, Len(s)), ch)

RECURSIVE trimStart(_)
trimStart(s) ==
  IF Len(s) > 0 /\ IsSpace(CharAt(s, 1)) THEN trimStart(SubSeq(s, 2, Len(s))) ELSE s

RECURSIVE trimEnd(_)
trimEnd(s) ==
  IF Len(s) > 0 /\ IsSpace(CharAt(s, Len(s))) THEN trimEnd(SubSeq(s, 1, Len(s) - 1)) ELSE s

trim(s) == trimEnd(trimStart(s))

\* the longest prefix of s made of digits
RECURSIVE LeadingDigits(_)
LeadingDigits(s) ==
  IF Len(s) > 0 /\ IsDigit(CharAt(s, 1))
  THEN CharAt(s, 1) \o LeadingDigits(SubSeq(s, 2, Len(s)))
  ELSE ""

RECURSIVE DigitsValue(_)
DigitsValue(d) ==
  IF Len(d) = 0 THEN 0
  ELSE 10 * DigitsValue(SubSeq(d, 1, Len(d) - 1)) + DigitVal(CharAt(d, Len(d)))

\* parseFloat(s): leading white space skipped, then the longest prefix that is
\* a decimal literal (sign, digits, fraction; feeds carry no exponent) or a
\* signed "Infinity"; NaN when there is no such prefix.  The fraction is read
\* to four digits, the unit of the model.
parseFloat(s) ==
  LET t      == trimStart(s)
      signed == Len(t) > 0 /\ CharAt(t, 1) \in {"-", "+"}
      neg    == Len(t) > 0 /\ CharAt(t, 1) = "-"
      u      == IF signed THEN SubSeq(t, 2, Len(t)) ELSE t
      int    == LeadingDigits(u)
      rest   == SubSeq(u, Len(int) + 1, Len(u))
      frac   == IF Len(rest) > 0 /\ CharAt(rest, 1) = "."
                THEN LeadingDigits(SubSeq(rest, 2, Len(rest))) ELSE ""
      mag    == DigitsValue(int) * 10000 + DigitsValue(SubSeq(frac \o "0000", 1, 4))
  IN  IF Len(u) >= 8 /\ SubSeq(u, 1, 8) = "Infinity"
      THEN (IF neg THEN 0 - Infinity ELSE Infinity)
      ELSE IF int = "" /\ frac = "" THEN NaN
      ELSE IF neg THEN 0 - mag ELSE mag

\* Number.isNaN
isNaN(v) == v = NaN

\* p[i] || dflt, for the 0-based index i of the code
FieldOr(p, i, dflt) == IF i + 1 <= Len(p) /\ p[i + 1] # "" THEN p[i + 1] ELSE dflt

NonEmpty(x) == x # ""

\* the object built from one token of the location cell (lines 46-50)
TokenMention(tok) ==
  LET p == Split(tok, "#")
  IN  [name    |-> FieldOr(p, 0, ""),
       lat     |-> parseFloat(FieldOr(p, 4, "0")),
       lon     |-> parseFloat(FieldOr(p, 5, "0")),
       country |-> FieldOr(p, 2, "")]

\* if (!name || Number.isNaN(lat) || Number.isNaN(lon)) return null
TokenDropped(m) == m.name = "" \/ isNaN(m.lat) \/ isNaN(m.lon)

TokenKept(m) == ~TokenDropped(m)

\* one line of the text to { themes, locations }
ParseRow(line) ==
  LET cols   == Split(line, "\t")
      themes == SelectSeq(Split(FieldOr(cols, 4, ""), ";"), NonEmpty)
      v2locs == SelectSeq(Split(FieldOr(cols, 8, ""), ";"), NonEmpty)
      made   == [i \in 1..Len(v2locs) |-> TokenMention(v2locs[i])]
  IN  [themes |-> themes, locations |-> SelectSeq(made, TokenKept)]

\* the text of the answer to the rows of the feed
fetchGKGLastHour(data) ==
  LET lines == Split(trim(data), "\n")
  IN  [i \in 1..Len(lines) |-> ParseRow(lines[i])]

(***************************************************************************)
(* Place aggregation (the loop of ingestOnce over the parsed feed).        *)
(* Coordinates are integers in units of 1/10000 degree.                    *)
(***************************************************************************)
\* Number.prototype.toFixed(3): sign and rounded magnitude in 1/1000 degree;
\* a negative value that rounds to zero keeps its sign ("-0.000")
toFixed3(v) ==
  LET mag == IF v < 0 THEN 0 - v ELSE v
  IN  [neg |-> v < 0, n |-> (mag + 5) \div 10]

\* `${loc.lat.toFixed(3)},${loc.lon.toFixed(3)}:${loc.name}`
BucketId(loc) == <<toFixed3(loc.lat), toFixed3(loc.lon), loc.name>>

\* position of key k in a sequence of records with a field of that key, 0 if absent
IndexOfId(m, k) ==
  IF \E i \in 1..Len(m) : m[i].id = k THEN CHOOSE i \in 1..Len(m) : m[i].id = k ELSE 0

IndexOfCat(cs, c) ==
  IF \E i \in 1..Len(cs) : cs[i].cat = c THEN CHOOSE i \in 1..Len(cs) : cs[i].cat = c ELSE 0

\* a faulty variant: curr.counts[cat] = curr.counts[cat] || 1
IncCountOnce(counts, cat) ==
  IF IndexOfCat(counts, cat) = 0 THEN Append(counts, [cat |-> cat, n |-> 1]) ELSE counts

\* curr.counts[cat] = (curr.counts[cat] || 0) + 1, counts kept in key insertion order
IncCount(counts, cat) ==
  LET i == IndexOfCat(counts, cat)
  IN  IF i = 0 THEN Append(counts, [cat |-> cat, n |-> 1])
      ELSE [counts EXCEPT ![i].n = @ + 1]

\* one iteration of the inner loop: buckets.get(id) || {...}; increment; buckets.set
AddMention(buckets, cat, loc) ==
  LET id == BucketId(loc)
      i  == IndexOfId(buckets, id)
  IN  IF i = 0
      THEN Append(buckets, [id |-> id, name |-> loc.name, lat |-> loc.lat, lon |-> loc.lon,
                            country |-> loc.country,
                            counts |-> IncCount(<<>>, cat)])
      ELSE [buckets EXCEPT ![i].counts = IncCount(@, cat)]

RECURSIVE AddLocations(_, _, _)
AddLocations(buckets, cat, locs) ==
  IF locs = <<>> THEN buckets
  ELSE AddLocations(AddMention(buckets, cat, Head(locs)), cat, Tail(locs))

\* the Map buckets after the loop over gkg, as a sequence in insertion order
RECURSIVE Aggregate(_, _)
Aggregate(buckets, gkg) ==
  IF gkg = <<>> THEN buckets
  ELSE LET row == Head(gkg)
           cat == mapThemesToCategory(row.themes)
       IN  IF cat = Null THEN Aggregate(buckets, Tail(gkg))
           ELSE Aggregate(AddLocations(buckets, cat, row.locations), Tail(gkg))

\* [...buckets.values()]
BucketValues(buckets) ==
  [i \in 1..Len(buckets) |->
     [name |-> buckets[i].name, lat |-> buckets[i].lat, lon |-> buckets[i].lon,
      country |-> buckets[i].country, counts |-> buckets[i].counts]]

(***************************************************************************)
(* Ranker.                                                                 *)
(***************************************************************************)
\* { ...p, score: count }
Scored(p, count) ==
  [name |-> p.name, lat |-> p.lat, lon |-> p.lon, country |-> p.country,
   counts |-> p.counts, score |-> count]

\* cats[cat].push(...), creating the list on first use; keys in insertion order
PushRanked(cats, cat, rp) ==
  LET i == IndexOfCat(cats, cat)
  IN  IF i = 0 THEN Append(cats, [cat |-> cat, list |-> <<rp>>])
      ELSE [cats EXCEPT ![i].list = Append(@, rp)]

RECURSIVE PushCounts(_, _, _)
PushCounts(cats, p, counts) ==
  IF counts = <<>> THEN cats
  ELSE PushCounts(PushRanked(cats, Head(counts).cat, Scored(p, Head(counts).n)), p, Tail(counts))

RECURSIVE GroupByCat(_, _)
GroupByCat(cats, places) ==
  IF places = <<>> THEN cats
  ELSE GroupByCat(PushCounts(cats, Head(places), Head(places).counts), Tail(places))

\* a faulty variant: an unstable sort that puts x before the elements of its score
InsertDescBeforeTies(sorted, x) ==
  LET k == Cardinality({i \in 1..Len(sorted) : sorted[i].score > x.score})
  IN  SubSeq(sorted, 1, k) \o <<x>> \o SubSeq(sorted, k + 1, Len(sorted))

\* insertion of x behind every element whose score is at least x.score
InsertDesc(sorted, x) ==
  LET k == Cardinality({i \in 1..Len(sorted) : sorted[i].score >= x.score})
  IN  SubSeq(sorted, 1, k) \o <<x>> \o SubSeq(sorted, k + 1, Len(sorted))

\* _.orderBy(list, ["score"], ["desc"]): a stable sort, descending by score
RECURSIVE OrderByScoreDescFrom(_, _)
OrderByScoreDescFrom(sorted, rest) ==
  IF rest = <<>> THEN sorted
  ELSE OrderByScoreDescFrom(InsertDesc(sorted, Head(rest)), Tail(rest))

orderByScoreDesc(list) == OrderByScoreDescFrom(<<>>, list)

\* _.orderBy(cats[cat], ["score"], ["desc"]).slice(0, TOP_N)
TopOfCategory(list) == Slice(orderByScoreDesc(list), TOP_N)

rankPlaces(places) ==
  LET cats == GroupByCat(<<>>, places)
  IN  [i \in 1..Len(cats) |-> [cat |-> cats[i].cat, list |-> TopOfCategory(cats[i].list)]]

(***************************************************************************)
(* Camera providers.  A camera is [id, url, player, source]; the fields    *)
(* title, image and verified are carried through unread and are left out.  *)
(* "" stands for a falsy field (empty string or undefined).                *)
(***************************************************************************)
\* a || b on strings
OrElse(a, b) == IF a # "" THEN a ELSE b

\* the filter of windyNearby: status "active" (any letter case) and live available
WindyKeeps(c) == toLowerCase(c.status) = "active" /\ c.live

\* the projection of windyNearby
WindyCam(c) ==
  [id |-> c.id, player |-> c.embed, url |-> OrElse(OrElse(c.link, c.desktop), ""),
   source |-> "windy"]

\* windyNearby once its request has answered with the webcams `data`;
\* without WINDY_KEY no request is made and the result is empty
windyNearby(key, data) ==
  IF ~key THEN <<>>
  ELSE Slice(MapSeq(FilterSeq(data, WindyKeeps), WindyCam), MAX_CAMS)

\* the projection of ytSearch from a video id
YtCam(v) ==
  [id |-> v, player |-> "https://www.youtube.com/embed/" \o v,
   url |-> "https://www.youtube.com/watch?v=" \o v, source |-> "youtube"]

\* ytSearch once its request has answered with the video ids `items`
ytSearch(key, items) == IF ~key THEN <<>> ELSE MapSeq(items, YtCam)

(***************************************************************************)
(* findCamsForPlace: the pieces between its awaits.                         *)
(***************************************************************************)
\* the list kws, cut to the first NumKws phrases
KWS == << "live cam", "traffic cam", "weather cam", "city cam",
          "library cam", "airport cam", "public cam", "webcam live" >>
kws == SubSeq(KWS, 1, IF NumKws < Len(KWS) THEN NumKws ELSE Len(KWS))

\* c.url || c.player || c.id
CamKey(c) == OrElse(OrElse(c.url, c.player), c.id)

\* cams.find(x => x.url === c.url)
FindByUrl(cams, c) == \E i \in 1..Len(cams) : cams[i].url = c.url

\* a faulty variant: cams.unshift(c)
PushCamFront(cams, c) == <<c>> \o cams

\* cams.push(c)
PushCam(cams, c) == Append(cams, c)

\* a faulty variant: the phrase loop without its break
NeverBreak(cams) == FALSE

\* cams.length >= MAX_CAMS, the break at the top of the phrase loop
BreakAtMax(cams) == Len(cams) >= MAX_CAMS

\* the inner loop over one search's results
RECURSIVE PushMore(_, _)
PushMore(cams, more) ==
  IF more = <<>> THEN cams
  ELSE LET c == Head(more)
           next == IF ~FindByUrl(cams, c) THEN PushCam(cams, c) ELSE cams
       IN  IF Len(next) >= MAX_CAMS THEN next ELSE PushMore(next, Tail(more))

\* _.uniqBy(cams, key): the first camera of every key, in order
RECURSIVE UniqByFrom(_, _)
UniqByFrom(kept, rest) ==
  IF rest = <<>> THEN kept
  ELSE IF \E i \in 1..Len(kept) : CamKey(kept[i]) = CamKey(Head(rest))
       THEN UniqByFrom(kept, Tail(rest))
       ELSE UniqByFrom(Append(kept, Head(rest)), Tail(rest))

uniqByKey(cams) == UniqByFrom(<<>>, cams)

\* a faulty variant: the return statement without _.uniqBy
FinalCamsNoUniq(cams) == Slice(cams, MAX_CAMS)

\* the return statement: _.uniqBy(cams, c => c.url || c.player || c.id).slice(0, MAX_CAMS)
FinalCams(cams) == Slice(uniqByKey(cams), MAX_CAMS)

(***************************************************************************)
(* State.                                                                  *)
(***************************************************************************)
VARIABLES
  State,      \* the published snapshot (the module variable STATE of the code)
  run,        \* run[r]: the locals and the position of the r-th call of ingestOnce
  now,        \* the clock read by new Date() at publication
  resp,       \* the body of the last response of GET /api/state
  published,  \* history: the snapshots built by line 161, in order, with their run
  cfg,        \* which provider keys are configured: [windy, yt]
  alive       \* FALSE once a rejection was left unhandled, which ends the process

vars == <<State, run, now, resp, published, cfg, alive>>

\* updatedAt: null (publication times count from 1)
NoTime == 0

\* a record-valued history variable that has no value yet
Unset == [unset |-> TRUE]

\* let STATE = { updatedAt: null, categories: {}, places: [] }
InitialState == [updatedAt |-> NoTime, categories |-> <<>>, places |-> <<>>]

\* a run that has not been triggered
IdleRun ==
  [pc |-> "idle", text |-> "", gkg |-> <<>>, buckets |-> <<>>, ranked |-> <<>>, ci |-> 0, pi |-> 0,
   cams |-> <<>>, ki |-> 0, categories |-> <<>>, places |-> <<>>,
   calls |-> <<>>, last |-> Unset, results |-> <<>>, issued |-> <<>>, inflight |-> 0,
   start |-> Unset, overlapped |-> FALSE, atAbort |-> Unset]

Active(r) == run[r].pc \in {"fetch", "windy", "yt"}

\* history kept in a run's record: start is STATE when the run was called,
\* overlapped tells that another run published while this one was in progress,
\* atAbort is STATE when the run was aborted, issued lists the provider calls
\* made so far for the current place, inflight counts the provider calls that
\* were made and have not settled

(***************************************************************************)
(* ingestOnce after the feed: the loop over ranked, between provider calls. *)
(***************************************************************************)
\* a faulty variant: the loop body without its continue
NeverSkip(cams) == FALSE

\* if (!cams.length) continue
SkipPlace(cams) == Len(cams) = 0

\* a faulty variant: the entry keeps the first camera only
CategoryEntryFirstCam(p, cams) ==
  [place |-> [name |-> p.name, country |-> p.country, lat |-> p.lat, lon |-> p.lon,
              score |-> p.score],
   cams |-> MapSeq(Slice(cams, 1),
                   LAMBDA c : [url |-> c.url, source |-> c.source, player |-> c.player])]

\* the entry pushed to categories[cat]
CategoryEntry(p, cams) ==
  [place |-> [name |-> p.name, country |-> p.country, lat |-> p.lat, lon |-> p.lon,
              score |-> p.score],
   cams |-> MapSeq(cams, LAMBDA c : [url |-> c.url, source |-> c.source, player |-> c.player])]

\* the record pushed to places: { category: cat, ...p, cams }
PlaceRecord(cat, p, cams) ==
  [category |-> cat, name |-> p.name, lat |-> p.lat, lon |-> p.lon, country |-> p.country,
   counts |-> p.counts, score |-> p.score, cams |-> cams]

\* a provider call of the current findCamsForPlace, as the history calls keeps it
Call(kind, k, before, threw, out) ==
  [kind |-> kind, kw |-> k, before |-> before, threw |-> threw, out |-> out]

\* The stretches of code below call one another until a network request is
\* pending (pc "windy" or "yt") or both loops are over (pc "publish").  A
\* provider whose key is missing returns at once without a request: awaiting it
\* is no suspension point that a timer, a reader or another run can use.
\* a provider call as the history issued keeps it: made when so many places had
\* their cameras returned
Issue(kind, k, rr) == [kind |-> kind, kw |-> k, returned |-> Len(rr.results)]

\* Body(x) with x evaluated once
With(x, Body(_)) == CHOOSE y \in { Body(v) : v \in {x} } : TRUE

RECURSIVE CallFind(_, _, _), StartCategory(_, _, _), AfterFind(_, _, _), ReturnCams(_, _),
          EnterLoop(_, _, _), AfterYt(_, _, _), AfterWindy(_, _, _, _)

\* a faulty variant: the first search is started together with windyNearby
CallFindBoth(c, rr, pi) ==
  LET Then(called) ==
        IF c.windy THEN called ELSE AfterWindy(c, called, FALSE, windyNearby(c.windy, <<>>))
  IN  With([rr EXCEPT !.pi = pi, !.pc = "windy", !.cams = <<>>, !.ki = 0, !.calls = <<>>,
                      !.issued = <<Issue("windy", 0, rr), Issue("yt", 1, rr)>>,
                      !.inflight = @ + 2],
           Then)

\* findCamsForPlace(p) is called for place pi of the current category: its first
\* statement calls windyNearby
CallFind(c, rr, pi) ==
  LET Then(called) ==
        IF c.windy THEN called ELSE AfterWindy(c, called, FALSE, windyNearby(c.windy, <<>>))
  IN  With([rr EXCEPT !.pi = pi, !.pc = "windy", !.cams = <<>>, !.ki = 0, !.calls = <<>>,
                      !.issued = <<Issue("windy", 0, rr)>>, !.inflight = @ + 1],
           Then)

\* the head of the outer loop at category ci: categories[cat] = [], then its places;
\* past the last category the run is ready to publish
StartCategory(c, rr, ci) ==
  IF ci > Len(rr.ranked) THEN [rr EXCEPT !.pc = "publish", !.ci = ci, !.pi = 0]
  ELSE LET Then(opened) ==
             IF opened.ranked[ci].list = <<>> THEN StartCategory(c, opened, ci + 1)
             ELSE CallFind(c, opened, 1)
       IN  With([rr EXCEPT !.ci = ci,
                   !.categories = Append(@, [cat |-> rr.ranked[ci].cat, entries |-> <<>>])],
                Then)

\* the rest of the loop body once findCamsForPlace has returned cams
AfterFind(c, rr, cams) ==
  LET cat  == rr.ranked[rr.ci].cat
      list == rr.ranked[rr.ci].list
      p    == list[rr.pi]
      Then(kept) ==
        IF kept.pi < Len(kept.ranked[kept.ci].list) THEN CallFind(c, kept, kept.pi + 1)
        ELSE StartCategory(c, kept, kept.ci + 1)
  IN  With(IF SkipPlace(cams) THEN rr
           ELSE [rr EXCEPT !.categories[Len(rr.categories)].entries =
                              Append(@, CategoryEntry(p, cams)),
                           !.places = Append(@, PlaceRecord(cat, p, cams))],
           Then)

\* the return statement of findCamsForPlace, and the caller's continuation
ReturnCams(c, rr) ==
  LET Then(noted) == AfterFind(c, noted, noted.last.final)
  IN  With([rr EXCEPT !.last = [cat |-> rr.ranked[rr.ci].cat,
                                place |-> rr.ranked[rr.ci].list[rr.pi],
                                raw |-> rr.cams, final |-> FinalCams(rr.cams),
                                calls |-> rr.calls],
                      !.results = Append(@, FinalCams(rr.cams))],
           Then)

\* the head of the phrase loop at phrase k: leave at the end of the list or at
\* MAX_CAMS, else call ytSearch
EnterLoop(c, rr, k) ==
  IF k > Len(kws) THEN ReturnCams(c, rr)
  ELSE IF BreakAtMax(rr.cams) THEN ReturnCams(c, rr)
  ELSE LET Then(called) == IF c.yt THEN called ELSE AfterYt(c, called, ytSearch(c.yt, <<>>))
       IN  With([rr EXCEPT !.pc = "yt", !.ki = k,
                           !.issued = Append(@, Issue("yt", k, rr)), !.inflight = @ + 1],
                Then)

\* ytSearch returned more: the inner loop, then the next phrase
AfterYt(c, rr, more) ==
  LET Then(got) == EnterLoop(c, got, got.ki + 1)
  IN  With([rr EXCEPT !.cams = PushMore(rr.cams, more), !.inflight = @ - 1,
                      !.calls = Append(@, Call("yt", rr.ki, Len(rr.cams), FALSE, more))],
           Then)

\* a faulty variant: no try/catch around the phrase loop
AfterYtThrowPropagates(c, rr) ==
  [rr EXCEPT !.pc = "failed",
             !.calls = Append(@, Call("yt", rr.ki, Len(rr.cams), TRUE, <<>>))]

\* ytSearch threw: the catch around the phrase loop, then the return statement
AfterYtThrow(c, rr) ==
  LET Then(got) == ReturnCams(c, got)
  IN  With([rr EXCEPT !.inflight = @ - 1,
                      !.calls = Append(@, Call("yt", rr.ki, Len(rr.cams), TRUE, <<>>))],
           Then)

\* a faulty variant: no try/catch around the call of windyNearby
AfterWindyPropagates(c, rr, threw, out) ==
  LET got == [rr EXCEPT !.cams = IF threw THEN rr.cams ELSE rr.cams \o out,
                        !.calls = Append(@, Call("windy", 0, Len(rr.cams), threw, out))]
  IN  IF threw THEN [got EXCEPT !.pc = "failed"]
      ELSE IF Len(got.cams) < MAX_CAMS THEN EnterLoop(c, got, 1) ELSE ReturnCams(c, got)

\* windyNearby settled: cams = cams.concat(out), or the empty catch; then the
\* fallback while fewer than MAX_CAMS were collected
AfterWindy(c, rr, threw, out) ==
  LET Then(got) ==
        IF Len(got.cams) < MAX_CAMS THEN EnterLoop(c, got, 1) ELSE ReturnCams(c, got)
  IN  With([rr EXCEPT !.cams = IF threw THEN rr.cams ELSE rr.cams \o out, !.inflight = @ - 1,
                      !.calls = Append(@, Call("windy", 0, Len(rr.cams), threw, out))],
           Then)

\* the locals of ingestOnce once the feed gkg has arrived, up to the next request
AfterFetch(c, rr, gkg) ==
  LET Ranked(buckets) == [rr EXCEPT !.gkg = gkg, !.buckets = buckets,
                                     !.ranked = rankPlaces(buckets)]
      Then(got) == StartCategory(c, got, 1)
  IN  With(With(BucketValues(Aggregate(<<>>, gkg)), Ranked), Then)

\* STATE = { updatedAt: new Date().toISOString(), categories, places }
Snapshot(rr, t) == [updatedAt |-> t, categories |-> rr.categories, places |-> rr.places]

\* a faulty variant: the snapshot is built in STATE itself, visible after every stretch
StateAfterEager(st, rr, t) == Snapshot(rr, t)

\* a faulty variant: an aborted run publishes what it has (nothing)
StateAfterAbortPublishes(st, rr, t) ==
  IF rr.pc \in {"publish", "failed"} THEN Snapshot(rr, t) ELSE st

\* State after a stretch of ingestOnce that left the locals rr: assigned only by
\* the last statement, once both loops are over
StateAfter(st, rr, t) == IF rr.pc = "publish" THEN Snapshot(rr, t) ELSE st

\* try { await ingestOnce(); } catch(e) { console.error(...) } in both triggers
TriggerCatches == TRUE

\* run r has executed up to its next await (or to its end) with locals rr
\* (the value of locals)
Settle(r, locals) ==
  \E rr \in {locals} :
  LET pub == rr.pc = "publish"
  IN  /\ State' = StateAfter(State, rr, now)
      /\ alive' = (rr.pc = "failed" => TriggerCatches)
      /\ now' = IF pub THEN now + 1 ELSE now
      /\ published' = IF pub THEN Append(published, [run |-> r, snap |-> Snapshot(rr, now)])
                      ELSE published
      /\ run' = [q \in Runs |->
                   IF q = r THEN [rr EXCEPT !.pc = IF pub THEN "done" ELSE @,
                                            !.atAbort = IF rr.pc = "failed" THEN State' ELSE @]
                   ELSE IF Active(q) /\ pub THEN [run[q] EXCEPT !.overlapped = TRUE]
                   ELSE run[q]]
      /\ UNCHANGED <<resp, cfg>>

(***************************************************************************)
(* Actions.                                                                *)
(***************************************************************************)
\* ingestOnce is called: fetchGKGLastHour issues its request
Start(r) ==
  /\ alive
  /\ run[r].pc = "idle"
  /\ run' = [run EXCEPT ![r] = [IdleRun EXCEPT !.pc = "fetch", !.start = State]]
  /\ UNCHANGED <<State, now, resp, published, cfg, alive>>

\* the boot run: (async () => { try { await ingestOnce(); } catch ... })()
Boot == Start(1)

\* a firing of cron.schedule("0 * * * *", ...): nothing looks at a run in progress
Cron(r) ==
  /\ r > 1
  /\ run[r - 1].pc # "idle"
  /\ Start(r)

\* the feed request fails: ingestOnce rejects at its first await and the trigger's
\* catch logs the error
FetchFail(r) ==
  /\ alive
  /\ run[r].pc = "fetch"
  /\ Settle(r, [run[r] EXCEPT !.pc = "failed"])

\* the feed request answers and parses to gkg
FetchOk(r, gkg) ==
  /\ alive
  /\ run[r].pc = "fetch"
  /\ Settle(r, AfterFetch(cfg, run[r], gkg))

\* the feed request answers with the text data, which fetchGKGLastHour parses
FetchText(r, data) ==
  /\ alive
  /\ run[r].pc = "fetch"
  /\ Settle(r, AfterFetch(cfg, [run[r] EXCEPT !.text = data], fetchGKGLastHour(data)))

\* the request of windyNearby answers (data: the webcams of the answer)
WindyReturn(r, data) ==
  /\ alive
  /\ run[r].pc = "windy"
  /\ Settle(r, AfterWindy(cfg, run[r], FALSE, windyNearby(cfg.windy, data)))

\* the request of windyNearby fails
WindyThrow(r) ==
  /\ alive
  /\ run[r].pc = "windy"
  /\ Settle(r, AfterWindy(cfg, run[r], TRUE, <<>>))

\* the request of ytSearch answers (items: the video ids of the answer)
YtReturn(r, items) ==
  /\ alive
  /\ run[r].pc = "yt"
  /\ Settle(r, AfterYt(cfg, run[r], ytSearch(cfg.yt, items)))

\* the request of ytSearch fails, or an item of its answer has no id
YtThrow(r) ==
  /\ alive
  /\ run[r].pc = "yt"
  /\ Settle(r, AfterYtThrow(cfg, run[r]))

\* a faulty variant: the handler answers with the snapshot it captured at start-up
GetStateCaptured(st) == InitialState

\* res.json(STATE)
GetState(st) == st

\* GET /api/state
Read ==
  /\ alive
  /\ resp' = GetState(State)
  /\ UNCHANGED <<State, run, now, published, cfg, alive>>

(***************************************************************************)
(* Inputs: what the feed and the providers may answer.                     *)
(***************************************************************************)
Loc(name, lat, lon, country) == [name |-> name, lat |-> lat, lon |-> lon, country |-> country]
Kyiv == Loc("Kyiv", 504500, 305200, "UA")
Lima == Loc("Lima", -120464, -770428, "PE")
Oslo == Loc("Oslo", 599139, 107522, "")

Row(themes, locations) == [themes |-> themes, locations |-> locations]

\* a raw webcam of the primary provider's answer
Webcam(id, status, live, embed, link, desktop) ==
  [id |-> id, status |-> status, live |-> live, embed |-> embed, link |-> link,
   desktop |-> desktop]

\* feeds of the whole-system specification: a feed without a classified row, and
\* a feed that ranks two categories of one place each
SysFeeds ==
  { << Row(<<>>, <<>>) >>,
    << Row(<<"TAX_ETHNICITY">>, <<Oslo>>), Row(<<"MILITARY_ACTIVITY", "TERROR">>, <<Kyiv>>),
       Row(<<"Election_Fraud">>, <<Lima>>) >> }

SysWindy == { << Webcam("w1", "active", TRUE, "e1", "l1", "") >> }
SysYt == { << "a" >> }

Configs == [windy : BOOLEAN, yt : BOOLEAN]

\* deployments of the whole-system specification: one provider key each
SysConfigs == { c \in Configs : c.windy # c.yt }

(***************************************************************************)
(* The whole system: boot run, cron firings, provider answers, readers.    *)
(***************************************************************************)
Init ==
  /\ State = InitialState
  /\ run = [r \in Runs |-> IdleRun]
  /\ now = 1
  /\ resp = Unset
  /\ published = <<>>
  /\ alive = TRUE
  /\ cfg \in SysConfigs

Next ==
  \/ Boot
  \/ \E r \in Runs : Cron(r)
  \/ \E r \in Runs : FetchFail(r)
  \/ \E r \in Runs : \E gkg \in SysFeeds : FetchOk(r, gkg)
  \/ \E r \in Runs : \E data \in SysWindy : WindyReturn(r, data)
  \/ \E r \in Runs : WindyThrow(r)
  \/ \E r \in Runs : \E items \in SysYt : YtReturn(r, items)
  \/ \E r \in Runs : YtThrow(r)
  \/ Read

Spec == Init /\ [][Next]_vars

(***************************************************************************)
(* One run alone, over one place, with every kind of provider answer:      *)
(* findCamsForPlace from its call to its return.                           *)
(***************************************************************************)
CamFeeds == { << Row(<<"MILITARY_ACTIVITY", "TERROR">>, <<Kyiv>>) >> }

wA == Webcam("w1", "active", TRUE, "e1", "l1", "")
wB == Webcam("w2", "Active", TRUE, "e2", "", "d2")
\* no page url: the key is the player
wC == Webcam("w3", "active", TRUE, "e3", "", "")
wC2 == Webcam("w4", "active", TRUE, "e3", "", "")
\* the page url of wA once more
wD == Webcam("w5", "active", TRUE, "e5", "l1", "")
\* dropped by the filter
wE == Webcam("w6", "inactive", TRUE, "e6", "l6", "")
wF == Webcam("w7", "active", FALSE, "e7", "l7", "")
\* neither url nor player: the key is the id
wG == Webcam("w8", "ACTIVE", TRUE, "", "", "")
wH == Webcam("w9", "active", TRUE, "e9", "l9", "")
\* a webcam whose page is the video a of the secondary provider
wY == Webcam("w10", "active", TRUE, "e10", "https://www.youtube.com/watch?v=a", "")
\* a webcam without page url whose player is the page of the video a
wP == Webcam("w11", "active", TRUE, "https://www.youtube.com/watch?v=a", "", "")

CamWindy ==
  { <<>>, <<wA>>, <<wA, wD>>, <<wC, wC2>>, <<wE, wA, wF, wB>>, <<wA, wB, wC, wG, wH>>,
    <<wY, wB>>, <<wP>>, <<wA, wD, wB, wC>> }

CamYt == { <<>>, <<"a">>, <<"a", "b">>, <<"b", "a", "c">>, <<"c", "d">> }

\* the boot run has been called and no timer fires
Started == [r \in Runs |-> IF r = 1 THEN [IdleRun EXCEPT !.pc = "fetch", !.start = InitialState]
                           ELSE IdleRun]

InitCams ==
  /\ State = InitialState
  /\ run = Started
  /\ now = 1
  /\ resp = Unset
  /\ published = <<>>
  /\ alive = TRUE
  /\ cfg \in Configs

NextCams ==
  \/ \E gkg \in CamFeeds : FetchOk(1, gkg)
  \/ \E data \in CamWindy : WindyReturn(1, data)
  \/ WindyThrow(1)
  \/ \E items \in CamYt : YtReturn(1, items)
  \/ YtThrow(1)

SpecCams == InitCams /\ [][NextCams]_vars

(***************************************************************************)
(* One run alone, over every feed of at most MaxRows rows: aggregation and *)
(* ranking.                                                                *)
(***************************************************************************)
RankRows ==
  { Row(<<t>>, ls) : t \in {"WAR", "soccer"},
                     ls \in { <<Kyiv>>, <<Lima>>, <<Oslo>>, <<Kyiv, Lima>>, <<Lima, Lima>> } }
  \cup { Row(<<"weather">>, <<Kyiv>>) }

RECURSIVE SeqsUpTo(_, _)
SeqsUpTo(S, n) ==
  IF n = 0 THEN { <<>> }
  ELSE LET shorter == SeqsUpTo(S, n - 1)
       IN  shorter \cup { Append(q, x) : q \in shorter, x \in S }

RankFeeds == SeqsUpTo(RankRows, MaxRows) \ { <<>> }

InitRank ==
  /\ State = InitialState
  /\ run = Started
  /\ now = 1
  /\ resp = Unset
  /\ published = <<>>
  /\ alive = TRUE
  /\ cfg = [windy |-> TRUE, yt |-> TRUE]

NextRank == \E gkg \in RankFeeds : FetchOk(1, gkg)

SpecRank == InitRank /\ [][NextRank]_vars

(***************************************************************************)
(* What a complete snapshot of a run is, stated from the run's ranking and *)
(* from what findCamsForPlace returned for each ranked place, in order.    *)
(***************************************************************************)
\* the ranked places in the order the run enriches them, with their category index
RankedPairs(ranked) ==
  Flatten([i \in 1..Len(ranked) |->
             [j \in 1..Len(ranked[i].list) |-> [ci |-> i, p |-> ranked[i].list[j]]]])

\* the positions of pairs whose place got at least one camera
KeptPairs(results) == SelectSeq([k \in 1..Len(results) |-> k], LAMBDA k : results[k] # <<>>)

CompleteSnapshot(snap, ranked, results) ==
  LET pairs == RankedPairs(ranked)
      kept  == KeptPairs(results)
  IN  /\ snap.updatedAt # NoTime
      /\ Len(results) = Len(pairs)
      /\ Len(snap.categories) = Len(ranked)
      /\ \A i \in 1..Len(ranked) :
           /\ snap.categories[i].cat = ranked[i].cat
           /\ snap.categories[i].entries =
                MapSeq(SelectSeq(kept, LAMBDA k : pairs[k].ci = i),
                       LAMBDA k : CategoryEntry(pairs[k].p, results[k]))
      /\ snap.places =
           MapSeq(kept, LAMBDA k : PlaceRecord(ranked[pairs[k].ci].cat, pairs[k].p, results[k]))

BuiltByCompletedRun(snap) ==
  \E r \in Runs : run[r].pc = "done" /\ CompleteSnapshot(snap, run[r].ranked, run[r].results)

\* the bodies a reader has or could get now
Readable == {State} \cup (IF resp = Unset THEN {} ELSE {resp})

\* the last snapshot built by line 161, the initial one before the first
Latest == IF published = <<>> THEN InitialState ELSE published[Len(published)].snap

(***************************************************************************)
(* C1: at every moment, also while runs are suspended at a network call,   *)
(* what a read of the published state returns is the initial empty         *)
(* snapshot or the complete snapshot of one completed run: never a partly  *)
(* built one, never a mix of two runs.                                     *)
(***************************************************************************)
C1_SnapshotAtomicity ==
  \A x \in Readable : x = InitialState \/ BuiltByCompletedRun(x)

\* a reader got the snapshot of a completed run while another run is suspended
\* at a provider call with part of its own snapshot already built
C1_Witness ==
  /\ resp # Unset /\ resp # InitialState /\ resp = State
  /\ \E r \in Runs : run[r].pc \in {"windy", "yt"} /\ run[r].places # <<>>

(***************************************************************************)
(* C2: ingest runs are serialized: at most one run is between its start    *)
(* and its publication (or abort) at any time.                             *)
(***************************************************************************)
C2_RunsSerialized == Cardinality({r \in Runs : Active(r)}) <= 1

C4_ReadReturnsLatest ==
  /\ [](State = Latest)
  /\ []((\A r \in Runs : run[r].pc # "done") => State = InitialState)
  /\ [][Read => resp' = Latest]_vars

\* a reader got the snapshot of the second publication
C4_Witness ==
  /\ Len(published) >= 2 /\ resp = published[Len(published)].snap
  /\ resp # published[1].snap

(***************************************************************************)
(* What the returns of findCamsForPlace are judged against: the calls it   *)
(* made and what they answered.                                            *)
(***************************************************************************)
\* the returns of findCamsForPlace that the state remembers (the last of each run)
Returns == { run[r].last : r \in { q \in Runs : run[q].last # Unset } }

YtCalls(calls) == SelectSeq(calls, LAMBDA c : c.kind = "yt")

\* what the primary provider call returned (nothing when it threw)
PrimaryOut(calls) == Flatten(MapSeq(SelectSeq(calls, LAMBDA c : c.kind = "windy"), LAMBDA c : c.out))

\* what the searches returned, in phrase order
SecondaryOut(calls) == Flatten(MapSeq(YtCalls(calls), LAMBDA c : c.out))

NoDupKeys(cams) ==
  \A i, j \in 1..Len(cams) : i < j => CamKey(cams[i]) # CamKey(cams[j])

\* the cameras of all that are the first of their identity key, in order
FirstOfKey(all) ==
  SelectSeq([k \in 1..Len(all) |-> k],
            LAMBDA k : \A i \in 1..(k - 1) : CamKey(all[i]) # CamKey(all[k]))

FirstOccurrences(all) == MapSeq(FirstOfKey(all), LAMBDA k : all[k])

(***************************************************************************)
(* C5: a failing secondary search counts as zero results for its phrase    *)
(* only: while fewer than MAX_CAMS cameras are collected, the phrase after *)
(* a failed one is still searched.                                         *)
(***************************************************************************)
C5_SearchFailureSkipsOnePhrase ==
  \A ret \in Returns : \A i \in 1..Len(ret.calls) :
    LET c == ret.calls[i]
    IN  (c.kind = "yt" /\ c.threw /\ c.kw < Len(kws) /\ c.before < MAX_CAMS)
          => \E j \in 1..Len(ret.calls) : ret.calls[j].kind = "yt" /\ ret.calls[j].kw = c.kw + 1

(***************************************************************************)
(* C6: whatever the providers answer, the list findCamsForPlace returns    *)
(* has no two cameras of equal identity key and at most MAX_CAMS cameras.  *)
(***************************************************************************)
C6_NoDuplicateKeysAndCap ==
  \A ret \in Returns : NoDupKeys(ret.final) /\ Len(ret.final) <= MAX_CAMS

\* a return whose collected list held two cameras of one key
C6_Witness ==
  \E ret \in Returns : ~NoDupKeys(ret.raw) /\ Len(ret.final) < Len(ret.raw)

(***************************************************************************)
(* C7: a secondary search is issued only while fewer than MAX_CAMS cameras *)
(* are collected; once MAX_CAMS is reached none follows, whatever phrases  *)
(* remain.                                                                 *)
(***************************************************************************)
C7_SearchOnlyBelowMax ==
  /\ \A r \in Runs : run[r].pc = "yt" => Len(run[r].cams) < MAX_CAMS
  /\ \A r \in Runs : \A i \in 1..Len(run[r].calls) :
       run[r].calls[i].kind = "yt" => run[r].calls[i].before < MAX_CAMS
  /\ \A ret \in Returns : \A i \in 1..Len(ret.calls) :
       ret.calls[i].kind = "yt" => ret.calls[i].before < MAX_CAMS

\* a return after the fallback reached MAX_CAMS with phrases left unsearched
C7_Witness ==
  \E ret \in Returns :
    /\ Len(ret.raw) >= MAX_CAMS
    /\ Len(YtCalls(ret.calls)) >= 1
    /\ Len(YtCalls(ret.calls)) < Len(kws)
    /\ \A i \in 1..Len(ret.calls) : ~ret.calls[i].threw

(***************************************************************************)
(* C8: the returned list keeps the order of collection: the primary        *)
(* cameras first in the provider's order, then the secondary ones in       *)
(* phrase order; a secondary result whose url is already collected is left *)
(* out.  When nothing failed and MAX_CAMS was not reached the list is the  *)
(* primary cameras followed by the new secondary ones (3 primary + 4 new   *)
(* + 2 repeated give 7).                                                   *)
(***************************************************************************)
C8_PrimaryFirstStableOrder ==
  \A ret \in Returns :
    LET prim == PrimaryOut(ret.calls)
        all  == prim \o SecondaryOut(ret.calls)
        f    == ret.final
    IN  /\ IsSubseq(f, all)
        /\ \A i, j \in 1..Len(f) : i < j => ~(f[i].source = "youtube" /\ f[j].source = "windy")
        /\ SelectSeq(f, LAMBDA c : c.source = "windy") = FirstOccurrences(prim)
        /\ \A i, j \in 1..Len(f) : (i < j /\ f[j].source = "youtube") => f[i].url # f[j].url
        /\ ((\A i \in 1..Len(ret.calls) : ~ret.calls[i].threw) /\ Len(ret.raw) < MAX_CAMS)
             => f = FirstOccurrences(all)

\* primary cameras, then every phrase searched: some results new, some repeated
C8_Witness ==
  \E ret \in Returns :
    LET prim == PrimaryOut(ret.calls)
        sec  == SecondaryOut(ret.calls)
    IN  /\ prim # <<>>
        /\ Len(YtCalls(ret.calls)) = Len(kws)
        /\ \A i \in 1..Len(ret.calls) : ~ret.calls[i].threw
        /\ Len(ret.raw) < MAX_CAMS
        /\ Len(ret.final) > Len(prim)
        /\ Len(ret.final) < Len(prim) + Len(sec)
        /\ Len(ret.final) = Len(prim) + Cardinality({sec[i].url : i \in 1..Len(sec)})

(***************************************************************************)
(* C9: every place entry of every published snapshot, in the category      *)
(* lists and in the flat list, has at least one camera; a ranked place     *)
(* that got no camera is in neither.                                       *)
(***************************************************************************)
SamePlace(e, p) == e.name = p.name /\ e.lat = p.lat /\ e.lon = p.lon

C9_NoPlaceWithoutCamera ==
  /\ \A x \in Readable \cup { published[i].snap : i \in 1..Len(published) } :
       /\ \A i \in 1..Len(x.categories) : \A j \in 1..Len(x.categories[i].entries) :
            Len(x.categories[i].entries[j].cams) >= 1
       /\ \A k \in 1..Len(x.places) : Len(x.places[k].cams) >= 1
  /\ \A n \in 1..Len(published) :
       LET r     == published[n].run
           x     == published[n].snap
           pairs == RankedPairs(run[r].ranked)
       IN  \A k \in 1..Len(pairs) : run[r].results[k] = <<>> =>
             /\ \A j \in 1..Len(x.categories[pairs[k].ci].entries) :
                  ~SamePlace(x.categories[pairs[k].ci].entries[j].place, pairs[k].p)
             /\ \A m \in 1..Len(x.places) :
                  ~(x.places[m].category = run[r].ranked[pairs[k].ci].cat
                    /\ SamePlace(x.places[m], pairs[k].p))

\* the published snapshot of a run whose primary call failed for a place with
\* the secondary provider disabled, while another place got cameras
C9_Witness ==
  /\ ~cfg.yt
  /\ \E n \in 1..Len(published) :
       LET r == published[n].run
       IN  /\ State = published[n].snap
           /\ \E k \in 1..Len(run[r].results) : run[r].results[k] = <<>>
           /\ State.places # <<>>

(***************************************************************************)
(* C10: in every category list of rankPlaces the scores do not increase,   *)
(* there are at most TOP_N places, and places of equal score keep the      *)
(* order in which their buckets were inserted.                             *)
(***************************************************************************)
AsBucket(rp) ==
  [name |-> rp.name, lat |-> rp.lat, lon |-> rp.lon, country |-> rp.country,
   counts |-> rp.counts]

\* position of the bucket of a ranked place in the aggregation map
BucketIndex(buckets, rp) == CHOOSE i \in 1..Len(buckets) : buckets[i] = AsBucket(rp)

C10_RankingOrder ==
  \A r \in Runs : \A c \in 1..Len(run[r].ranked) :
    LET list == run[r].ranked[c].list
        b    == run[r].buckets
    IN  /\ Len(list) <= TOP_N
        /\ \A i \in 1..Len(list) : \E k \in 1..Len(b) : b[k] = AsBucket(list[i])
        /\ \A i, j \in 1..Len(list) : i < j =>
             /\ list[i].score >= list[j].score
             /\ list[i].score = list[j].score => BucketIndex(b, list[i]) < BucketIndex(b, list[j])

\* a category of more than TOP_N buckets whose list holds two places of equal
\* score and has moved a place in front of an earlier bucket
C10_Witness ==
  \E r \in Runs : \E c \in 1..Len(run[r].ranked) :
    LET list == run[r].ranked[c].list
        b    == run[r].buckets
        cat  == run[r].ranked[c].cat
    IN  /\ Cardinality({k \in 1..Len(b) : IndexOfCat(b[k].counts, cat) # 0}) > TOP_N
        /\ \E i, j \in 1..Len(list) : i < j /\ list[i].score = list[j].score
        /\ \E i \in 1..Len(list) : \E k \in 1..Len(b) :
             /\ k < BucketIndex(b, list[i])
             /\ IndexOfCat(b[k].counts, cat) # 0
             /\ \A j \in 1..i : b[k] # AsBucket(list[j])

(***************************************************************************)
(* C11: after the aggregation loop the counts of a category, summed over   *)
(* all buckets, are the number of (fact, mention) pairs of the facts       *)
(* classified as that category; a fact without category adds to no        *)
(* bucket, and a mention repeated within a fact counts every time.         *)
(***************************************************************************)
Categories == { RULES[i].cat : i \in 1..Len(RULES) }

RECURSIVE SumSeq(_)
SumSeq(ns) == IF ns = <<>> THEN 0 ELSE Head(ns) + SumSeq(Tail(ns))

\* counts[cat] of a bucket, 0 when the bucket has no such key
CountOf(b, cat) ==
  LET i == IndexOfCat(b.counts, cat) IN IF i = 0 THEN 0 ELSE b.counts[i].n

\* the (fact, mention) pairs of the feed whose fact is classified as cat
MentionsOf(gkg, cats, cat) ==
  SumSeq([i \in 1..Len(gkg) |-> IF cats[i] = cat THEN Len(gkg[i].locations) ELSE 0])

C11_CountsMatchMentions ==
  \A r \in Runs :
    LET b == run[r].buckets
    IN  /\ \A cats \in { [i \in 1..Len(run[r].gkg) |->
                                mapThemesToCategory(run[r].gkg[i].themes)] } :
             \A cat \in Categories :
               SumSeq([k \in 1..Len(b) |-> CountOf(b[k], cat)])
                 = MentionsOf(run[r].gkg, cats, cat)
        /\ \A k \in 1..Len(b) : \A i \in 1..Len(b[k].counts) :
             b[k].counts[i].cat \in Categories /\ b[k].counts[i].n >= 1

\* a feed with a fact without category and a fact that mentions one place twice
C11_Witness ==
  \E r \in Runs :
    /\ \E i \in 1..Len(run[r].gkg) :
         mapThemesToCategory(run[r].gkg[i].themes) = Null /\ run[r].gkg[i].locations # <<>>
    /\ \E i \in 1..Len(run[r].gkg) :
         /\ mapThemesToCategory(run[r].gkg[i].themes) # Null
         /\ Len(run[r].gkg[i].locations) = 2
         /\ run[r].gkg[i].locations[1] = run[r].gkg[i].locations[2]
    /\ \E k \in 1..Len(run[r].buckets) : \E cat \in Categories :
         CountOf(run[r].buckets[k], cat) >= 3

(***************************************************************************)
(* One run alone, over feeds of one fact whose theme list has at most      *)
(* MaxThemes tags: classification.                                         *)
(***************************************************************************)
ThemeTags ==
  { "WAR", "war_crime", "Kidnap", "ELECTION", "soccer_film", "TAX_FNCACT_CHAIRMAN",
    "Econ_Inflation", "WEATHER", "Flood", "jobs", "FARMSTEAD", "TAX_ETHNICITY" }

ThemeLists == SeqsUpTo(ThemeTags, MaxThemes)

InitThemes == InitRank

NextThemes == \E themes \in ThemeLists : FetchOk(1, <<Row(themes, <<Kyiv>>)>>)

SpecThemes == InitThemes /\ [][NextThemes]_vars

\* the category the run gave to its one fact, read from the bucket of the mention
ObservedCat(r) ==
  IF run[r].buckets = <<>> THEN Null ELSE run[r].buckets[1].counts[1].cat

\* the first rule, from rule i on, with a keyword inside some tag of the set T,
\* letter case ignored
RECURSIVE FirstRuleFrom(_, _)
FirstRuleFrom(T, i) ==
  IF i > Len(RULES) THEN Null
  ELSE IF \E k \in 1..Len(RULES[i].inc) : \E t \in T :
            Includes(toLowerCase(t), toLowerCase(RULES[i].inc[k]))
       THEN RULES[i].cat
       ELSE FirstRuleFrom(T, i + 1)

(***************************************************************************)
(* C12: mapThemesToCategory gives every theme list one category: that of   *)
(* the first rule, in declaration order, one of whose keywords is a        *)
(* case-insensitive substring of some theme, whatever the order of the     *)
(* themes, and none when no rule matches.                                  *)
(***************************************************************************)
C12_FirstRuleInDeclarationOrder ==
  \A r \in Runs :
    run[r].gkg # <<>> =>
      LET themes == run[r].gkg[1].themes
      IN  /\ Len(run[r].buckets) = (IF ObservedCat(r) = Null THEN 0 ELSE 1)
          /\ ObservedCat(r) \in Categories \cup {Null}
          /\ ObservedCat(r) = FirstRuleFrom({ themes[i] : i \in 1..Len(themes) }, 1)

\* a later rule's theme comes first and the earlier rule's theme is in mixed case
C12_Witness ==
  \E r \in Runs :
    /\ run[r].gkg # <<>>
    /\ LET themes == run[r].gkg[1].themes
       IN  /\ Len(themes) = 2
           /\ themes[2] # toUpperCase(themes[2])
           /\ FirstRuleFrom({themes[1]}, 1) \notin {Null, FirstRuleFrom({themes[2]}, 1)}
           /\ FirstRuleFrom({themes[2]}, 1) # Null
           /\ ObservedCat(r) = FirstRuleFrom({themes[2]}, 1)

(***************************************************************************)
(* One run alone, over feed texts of one line whose location cell has at   *)
(* most MaxTokens tokens: parsing.                                         *)
(***************************************************************************)
GeoTokens ==
  { "Kyiv#x#UA#x#50.45#30.52",
    "Lima#x#PE#x#-12.0464#-77.0428",
    "Oslo#x#NO",
    "Oslo#x#NO#x##10.7522",
    "Oslo#x#NO#x#abc#10.7522",
    "Oslo#x#NO#x#59.9139#Infinity",
    "#x#UA#x#50.45#30.52" }

RECURSIVE Join(_, _)
Join(ss, sep) ==
  IF Len(ss) = 0 THEN ""
  ELSE IF Len(ss) = 1 THEN ss[1]
  ELSE ss[1] \o sep \o Join(Tail(ss), sep)

FeedLine(themes, locs) == "1\t2\t3\t4\t" \o themes \o "\t6\t7\t8\t" \o locs

FeedTexts ==
  { FeedLine(th, Join(toks, ";")) \o nl :
      th \in {"WAR", "TAX;SOCCER"},
      toks \in SeqsUpTo(GeoTokens, MaxTokens) \ { <<>> },
      nl \in {"\n"} }

InitParse == InitRank

NextParse == \E data \in FeedTexts : FetchText(1, data)

SpecParse == InitParse /\ [][NextParse]_vars

\* the tokens of the location cell of line i of a text
TokensOfLine(data, i) ==
  SelectSeq(Split(FieldOr(Split(Split(trim(data), "\n")[i], "\t"), 8, ""), ";"), NonEmpty)

\* field i (0-based) of the token is there and is a finite decimal
FiniteField(p, i) ==
  /\ i + 1 <= Len(p)
  /\ p[i + 1] # ""
  /\ parseFloat(p[i + 1]) \notin {NaN, Infinity, 0 - Infinity}

\* the token yields a non-empty name and two finite coordinates
YieldsMention(tok) ==
  LET p == Split(tok, "#")
  IN  Len(p) >= 1 /\ p[1] # "" /\ FiniteField(p, 4) /\ FiniteField(p, 5)

(***************************************************************************)
(* C13: a token of the location cell that does not yield a non-empty name  *)
(* and two finite coordinates (latitude or longitude field missing, empty, *)
(* not numeric or infinite) is dropped and the other tokens of the row are *)
(* kept: the mentions of a row are its yielding tokens, in order, each     *)
(* with the name and the coordinates of its token.                         *)
(***************************************************************************)
C13_BadTokensDropped ==
  \A r \in Runs :
    run[r].text # "" =>
      \A i \in 1..Len(run[r].gkg) :
        LET good == SelectSeq(TokensOfLine(run[r].text, i), YieldsMention)
            locs == run[r].gkg[i].locations
        IN  /\ Len(locs) = Len(good)
            /\ \A k \in 1..Len(locs) :
                 /\ locs[k].name # ""
                 /\ locs[k].lat \notin {NaN, Infinity, 0 - Infinity}
                 /\ locs[k].lon \notin {NaN, Infinity, 0 - Infinity}
                 /\ k <= Len(good) =>
                      /\ locs[k].name = Split(good[k], "#")[1]
                      /\ locs[k].lat = parseFloat(Split(good[k], "#")[5])
                      /\ locs[k].lon = parseFloat(Split(good[k], "#")[6])

(***************************************************************************)
(* C14: a failure of the primary provider call is caught inside            *)
(* findCamsForPlace: the run is not aborted, the call counts as zero       *)
(* primary results, and the fallback starts at the first phrase with an    *)
(* empty collected list.                                                   *)
(***************************************************************************)
PrimaryThrew(calls) == calls # <<>> /\ calls[1].kind = "windy" /\ calls[1].threw

FallbackFromEmpty(calls) ==
  Len(calls) >= 2 => calls[2].kind = "yt" /\ calls[2].kw = 1 /\ calls[2].before = 0

C14_PrimaryFailureCaught ==
  /\ \A r \in Runs :
       PrimaryThrew(run[r].calls) =>
         /\ alive
         /\ run[r].pc # "failed"
         /\ FallbackFromEmpty(run[r].calls)
         /\ Len(run[r].calls) = 1 => run[r].pc = "yt" /\ run[r].ki = 1 /\ run[r].cams = <<>>
  /\ \A ret \in Returns :
       PrimaryThrew(ret.calls) =>
         /\ PrimaryOut(ret.calls) = <<>>
         /\ Len(ret.calls) >= 2
         /\ FallbackFromEmpty(ret.calls)
         /\ ret.raw = PushMore(<<>>, SecondaryOut(ret.calls))

\* the primary call failed and the place still got cameras from the searches
C14_Witness ==
  \E ret \in Returns :
    /\ PrimaryThrew(ret.calls)
    /\ ret.final # <<>>
    /\ \A i \in 2..Len(ret.calls) : ~ret.calls[i].threw

(***************************************************************************)
(* One run alone over the feeds of the system, with every combination of   *)
(* provider keys; every provider call returns or fails in finite time.     *)
(***************************************************************************)
OneWindy == { <<>>, <<wA>>, <<wA, wB>> }
OneYt == { <<>>, <<"a">> }

InitOne == InitCams

\* the pending provider call of run r returns or fails
ProviderSettles(r) ==
  \/ \E data \in OneWindy : WindyReturn(r, data)
  \/ WindyThrow(r)
  \/ \E items \in OneYt : YtReturn(r, items)
  \/ YtThrow(r)

NextOne ==
  \/ \E gkg \in SysFeeds : FetchOk(1, gkg)
  \/ FetchFail(1)
  \/ ProviderSettles(1)

SpecOne == InitOne /\ [][NextOne]_vars /\ WF_vars(ProviderSettles(1))

\* the places of snapshot x are the ranked places of run r that got at least one
\* camera, in order, with the cameras findCamsForPlace returned
ExactlyEnriched(x, r) ==
  LET pairs == RankedPairs(run[r].ranked)
      kept  == KeptPairs(run[r].results)
  IN  /\ Len(run[r].results) = Len(pairs)
      /\ Len(x.places) = Len(kept)
      /\ \A m \in 1..Len(kept) :
           /\ x.places[m].category = run[r].ranked[pairs[kept[m]].ci].cat
           /\ SamePlace(x.places[m], pairs[kept[m]].p)
           /\ x.places[m].cams = run[r].results[kept[m]]

(***************************************************************************)
(* C15: once the feed of a run has arrived the run goes on to publish a    *)
(* new snapshot, whichever provider calls fail: no provider failure aborts *)
(* the run, and the snapshot it publishes holds exactly the ranked places  *)
(* that got at least one camera.                                           *)
(***************************************************************************)
C15_EventuallyPublishes ==
  /\ \A r \in Runs : (run[r].pc \in {"windy", "yt"}) ~> (run[r].pc = "done")
  /\ [][\A r \in Runs : run[r].pc \in {"windy", "yt"} => run'[r].pc # "failed"]_vars
  /\ [](\A n \in 1..Len(published) :
          /\ run[published[n].run].pc = "done"
          /\ published[n].snap.updatedAt # NoTime
          /\ ExactlyEnriched(published[n].snap, published[n].run))

\* the run has published after its primary call and a search failed: one place
\* is in the snapshot, another is not
C15_Witness ==
  \E r \in Runs :
    /\ run[r].pc = "done"
    /\ published # <<>>
    /\ State = published[Len(published)].snap
    /\ published[Len(published)].run = r
    /\ run[r].last # Unset
    /\ PrimaryThrew(run[r].last.calls)
    /\ \E i \in 1..Len(run[r].last.calls) :
         run[r].last.calls[i].kind = "yt" /\ run[r].last.calls[i].threw
    /\ State.places # <<>>
    /\ Len(State.places) < Len(run[r].results)

(***************************************************************************)
(* C16: within one run the provider calls are strictly sequential: at most *)
(* one call is in flight; for a place the primary call comes first and has *)
(* settled before the first search, the searches are made one at a time in *)
(* phrase order; and a call for a place is made only when every earlier    *)
(* place of the run has had its cameras returned.                          *)
(***************************************************************************)
C16_ProviderCallsSequential ==
  \A r \in Runs :
    LET is == run[r].issued
        cs == run[r].calls
    IN  /\ run[r].inflight \in {0, 1}
        /\ run[r].inflight = 1 <=> run[r].pc \in {"windy", "yt"}
        /\ Len(is) = Len(cs) + run[r].inflight
        /\ \A i \in 1..Len(is) :
             /\ is[i].kind = (IF i = 1 THEN "windy" ELSE "yt")
             /\ is[i].kw = i - 1
             /\ is[i].returned = is[1].returned
        /\ \A i \in 1..Len(cs) : cs[i].kind = is[i].kind /\ cs[i].kw = is[i].kw
        /\ run[r].pc \in {"windy", "yt"} => is[1].returned = Len(run[r].results)
        /\ run[r].last # Unset =>
             /\ Len(run[r].results) >= 1
             /\ is # <<>> /\ is[1].returned \in {Len(run[r].results) - 1, Len(run[r].results)}

\* the second search of the second place is pending: the primary call and the
\* first search of that place have settled, the first place has returned
C16_Witness ==
  \E r \in Runs :
    /\ run[r].pc = "yt"
    /\ Len(run[r].issued) = 3
    /\ Len(run[r].calls) = 2
    /\ Len(run[r].results) = 1

(***************************************************************************)
(* C17: publications follow the order in which the runs fetched the feed:  *)
(* once the snapshot of a run is published, no run that was started        *)
(* earlier publishes afterwards.  Runs are numbered in the order in which  *)
(* they were started, that is in which they requested the feed.            *)
(***************************************************************************)
C17_PublicationsInFetchOrder ==
  \A i, j \in 1..Len(published) : i < j => published[i].run < published[j].run

(***************************************************************************)
(* C18: with the secondary provider enabled and no search failing,         *)
(* findCamsForPlace returns fewer than MAX_CAMS cameras only when every    *)
(* phrase of the list was searched.                                        *)
(***************************************************************************)
C18_FewerOnlyAfterAllPhrases ==
  \A ret \in Returns :
    (/\ cfg.yt
     /\ \A i \in 1..Len(ret.calls) : ret.calls[i].kind = "yt" => ~ret.calls[i].threw
     /\ Len(ret.final) < MAX_CAMS)
      => \A k \in 1..Len(kws) :
           \E i \in 1..Len(ret.calls) : ret.calls[i].kind = "yt" /\ ret.calls[i].kw = k

\* the entries of the per-category lists of a snapshot, in category order and
\* then in list order, each with its category
FlatEntries(x) ==
  Flatten([i \in 1..Len(x.categories) |->
             [j \in 1..Len(x.categories[i].entries) |->
                [cat |-> x.categories[i].cat, e |-> x.categories[i].entries[j]]]])

CamIds(cams) ==
  { [url |-> cams[i].url, source |-> cams[i].source, player |-> cams[i].player] :
      i \in 1..Len(cams) }

(***************************************************************************)
(* C19: in every published snapshot the flat list places and the lists of  *)
(* categories hold the same entries: one record of places per entry of     *)
(* categories, in category order then rank order, with the same name,      *)
(* coordinates, score and set of cameras, and no other record.             *)
(***************************************************************************)
C19_PlacesMatchCategories ==
  \A x \in {State} \cup { published[n].snap : n \in 1..Len(published) } :
    LET flat == FlatEntries(x)
    IN  /\ Len(x.places) = Len(flat)
        /\ \A k \in 1..Len(flat) :
             /\ x.places[k].category = flat[k].cat
             /\ x.places[k].name = flat[k].e.place.name
             /\ x.places[k].lat = flat[k].e.place.lat
             /\ x.places[k].lon = flat[k].e.place.lon
             /\ x.places[k].score = flat[k].e.place.score
             /\ Len(x.places[k].cams) = Len(flat[k].e.cams)
             /\ CamIds(x.places[k].cams) = CamIds(flat[k].e.cams)

\* a published snapshot with entries in two categories, one with two cameras
C19_Witness ==
  /\ published # <<>>
  /\ State = published[Len(published)].snap
  /\ Len(State.places) >= 2
  /\ State.places[1].category # State.places[2].category
  /\ \E k \in 1..Len(State.places) : Len(State.places[k].cams) >= 2

====
